---- MODULE Spec2Model ----
(***************************************************************************)
(* Model of the two vulnerability-report scripts of the repository:        *)
(*   SummaryVAfromCSV.py   (pipeline 1: combine, deduplicate, aggregate)   *)
(*   VAcompareNewIssue.py  (pipeline 2: prior/current period comparison)   *)
(*                                                                         *)
(* Text is modelled as a sequence of code points, so that str.strip(),     *)
(* str.upper() and string ordering are computed and not assumed.           *)
(* A cell is a record [k, s, n]:                                           *)
(*   k = "str"   a text cell with code points s                            *)
(*   k = "int"   an integer cell n                                         *)
(*   k = "float" the float n.0 (what pandas makes of an integer column     *)
(*               that has a missing value)                                 *)
(*   k = "nan"   a missing value (None in openpyxl, NaN in pandas)         *)
(***************************************************************************)
EXTENDS Integers, Sequences, FiniteSets, TLC

\* ------------------------------------------------------------------ bounds
\* pipeline 1: number of input files, and records over all files
MaxFiles == 2
MaxRecords == 3
\* pipeline 2: rows of the prior workbook, data rows of a current sheet
MaxPriorRows == 2
MaxRows == 2

\* ------------------------------------------------------------------- cells
Str(s) == [k |-> "str", s |-> s, n |-> 0]
NaN == [k |-> "nan", s |-> <<>>, n |-> 0]
IntCell(n) == [k |-> "int", s |-> <<>>, n |-> n]
FloatCell(n) == [k |-> "float", s |-> <<>>, n |-> n]
IsNa(c) == c.k = "nan"

\* code points of the texts the inputs use
sA == <<65>>                                    \* "A"
sAlow == <<97, 32>>                             \* "a "
sB == <<66>>                                    \* "B"
sC == <<67>>                                    \* "C"
sH1 == <<104, 49>>                              \* "h1"
sH1up == <<32, 72, 49>>                         \* " H1"
sH2 == <<104, 50>>                              \* "h2"
s80 == <<56, 48>>                               \* "80"
sCritical == <<67, 114, 105, 116, 105, 99, 97, 108>>   \* "Critical"
sHigh == <<72, 105, 103, 104>>                  \* "High"
sMedium == <<77, 101, 100, 105, 117, 109>>      \* "Medium"
sLow == <<76, 111, 119>>                        \* "Low"
sHighLower == <<104, 105, 103, 104>>            \* "high"

\* Python's str.strip(): leading and trailing whitespace removed
IsSpace(c) == c \in {32, 9, 10, 13}

RECURSIVE lstrip(_)
lstrip(s) ==
  IF s # <<>> /\ IsSpace(Head(s)) THEN lstrip(Tail(s)) ELSE s

RECURSIVE rstrip(_)
rstrip(s) ==
  IF s # <<>> /\ IsSpace(s[Len(s)]) THEN rstrip(SubSeq(s, 1, Len(s) - 1)) ELSE s

strip(s) == rstrip(lstrip(s))

\* Python's str.upper() on ASCII text
UpperChar(c) == IF c \in 97..122 THEN c - 32 ELSE c
upper(s) == [i \in 1..Len(s) |-> UpperChar(s[i])]

\* Python's ordering of str: by code point, a proper prefix first
RECURSIVE StrLt(_, _)
StrLt(a, b) ==
  IF b = <<>> THEN FALSE
  ELSE IF a = <<>> THEN TRUE
  ELSE IF Head(a) # Head(b) THEN Head(a) < Head(b)
  ELSE StrLt(Tail(a), Tail(b))

\* ------------------------------------------------- pipeline 1: the inputs
\* A CSV record as pandas.read_csv returns it: fields are kept verbatim (no
\* trimming, no case folding) and an empty field is NaN.
Rec(name, risk, host, port) ==
  [Name |-> name, Risk |-> risk, Host |-> host, Port |-> port]

CsvRecords ==
  { Rec(Str(sA), Str(sHigh), Str(sH1), Str(s80)),
    Rec(Str(sAlow), Str(sHigh), Str(sH1up), Str(s80)),   \* same issue, other case/space
    Rec(Str(sA), Str(sLow), Str(sH1), Str(s80)),         \* same key, risk not listed
    Rec(Str(sA), Str(sHigh), NaN, Str(s80)),             \* Host missing
    Rec(Str(sB), Str(sHigh), Str(sH1), Str(s80)),
    Rec(Str(sB), Str(sHigh), Str(sH2), Str(s80)),
    Rec(Str(sC), Str(sCritical), Str(sH1), Str(s80)),
    Rec(Str(sA), Str(sMedium), Str(sH2), Str(s80)),
    Rec(Str(sB), Str(sHighLower), Str(sH2), Str(s80)) }  \* risk in another case

SeqsUpTo(S, n) == UNION { [1..m -> S] : m \in 0..n }

\* An input file: gone by the time it is read, not parseable, or a table.
FileMissing == [status |-> "missing", rows |-> <<>>]
FileUnreadable == [status |-> "unreadable", rows |-> <<>>]
FileOk(rows) == [status |-> "ok", rows |-> rows]

FileStatus == {"missing", "unreadable", "ok"}

\* the number of "ok" files among the first i
RECURSIVE OkBefore(_, _)
OkBefore(status, i) ==
  IF i = 0 THEN 0
  ELSE OkBefore(status, i - 1) + (IF status[i] = "ok" THEN 1 ELSE 0)

\* The batch whose files have the given status, the k-th readable file
\* holding the records recs[cut[k]+1 .. cut[k+1]].
Batch(status, recs, cut) ==
  [i \in 1..Len(status) |->
     IF status[i] = "missing" THEN FileMissing
     ELSE IF status[i] = "unreadable" THEN FileUnreadable
     ELSE LET k == OkBefore(status, i)
          IN FileOk(SubSeq(recs, cut[k] + 1, cut[k + 1]))]

\* cut points 0 = cut[1] <= ... <= cut[k+1] = n, as a function on 1..k+1
Cuts(k, n) ==
  { c \in [1..(k + 1) -> 0..n] :
      /\ c[1] = 0
      /\ c[k + 1] = n
      /\ \A j \in 1..k : c[j] <= c[j + 1] }

\* ---------------------------------------------------------- the state
VARIABLES
  INPUT_FILES,   \* the files glob found, in order
  file_idx,      \* position of the read loop in INPUT_FILES
  all_dfs,       \* the tables read so far
  skipped,       \* indices of the files skipped with a warning
  df,            \* the combined, deduplicated table
  filtered_df,   \* its rows with a listed risk
  report_df,     \* the report table
  OUTPUT_FILE,   \* the output file: [written, header, rows]
  exc,           \* the exception in flight
  exit_status,   \* the process exit status
  pc1            \* position of the script

vars1 == <<INPUT_FILES, file_idx, all_dfs, skipped, df, filtered_df, report_df,
           OUTPUT_FILE, exc, exit_status, pc1>>

\* the state of pipeline 2 (VAcompareNewIssue.py), declared here for the frames
VARIABLES
  files_found,         \* whether glob found a prior and a current workbook
  q3_existing_issues,  \* the fingerprints of the prior period
  sheetnames,          \* wb.sheetnames of the current workbook
  sheet_idx,           \* position of the sheet loop
  q4_sheet,            \* the sheet in hand as the current workbook holds it
  ws,                  \* the sheet in hand, as edited
  col_map,             \* column of each field, from the headers
  seen_in_q4,
  rows_to_delete,
  status_col_idx,
  counts,              \* the counts of the sheet in hand
  summary_data,        \* per processed sheet, in order: [domain, counts]
  g_total,
  tables,              \* the three tables of RecurrenceSummary
  saved,               \* whether the output workbook was written
  pc2

vars2 == <<files_found, q3_existing_issues, sheetnames, sheet_idx, q4_sheet, ws,
           col_map, seen_in_q4, rows_to_delete, status_col_idx, counts,
           summary_data, g_total, tables, saved, pc2>>

vars == <<vars1, vars2>>

NoException == [type |-> "none", code |-> 0]
NoOutput == [written |-> FALSE, header |-> <<>>, rows |-> <<>>]

target_risks == <<Str(sCritical), Str(sHigh), Str(sMedium)>>
risk_order == <<Str(sCritical), Str(sHigh), Str(sMedium)>>
ReportHeader == <<"Name", "Risk", "Total_Count", "Host", "Per_Host_Count">>

Range(f) == { f[i] : i \in DOMAIN f }

\* df_part['SourceFile'] = file_name
TagSource(rows, i) ==
  [j \in 1..Len(rows) |->
     [Name |-> rows[j].Name, Risk |-> rows[j].Risk, Host |-> rows[j].Host,
      Port |-> rows[j].Port, SourceFile |-> i]]

\* pd.concat(all_dfs, ignore_index=True)
RECURSIVE concat(_)
concat(dfs) == IF dfs = <<>> THEN <<>> ELSE Head(dfs) \o concat(Tail(dfs))

\* the subset of drop_duplicates: the raw values, as read (NaN equals NaN)
DedupKey(r) == <<r.Name, r.Host, r.Port>>

RECURSIVE KeepFirstFrom(_, _)
KeepFirstFrom(d, i) ==
  IF i > Len(d) THEN <<>>
  ELSE (IF \E j \in 1..(i - 1) : DedupKey(d[j]) = DedupKey(d[i])
        THEN <<>> ELSE <<d[i]>>) \o KeepFirstFrom(d, i + 1)

\* df.drop_duplicates(subset=['Name', 'Host', 'Port'], keep='first')
drop_duplicates(d) == KeepFirstFrom(d, 1)

\* df[df['Risk'].isin(target_risks)]
isin(c, values) == c \in Range(values)
FilterRisk(d) == SelectSeq(d, LAMBDA r : isin(r.Risk, target_risks))

\* groupby drops the rows that have NaN in a key column (dropna=True) and
\* returns the groups sorted by key
Key3(r) == <<r.Name, r.Risk, r.Host>>
Key2(r) == <<r.Name, r.Risk>>
NoNa(key) == \A i \in DOMAIN key : ~IsNa(key[i])

RECURSIVE KeyLt(_, _)
KeyLt(a, b) ==
  IF a = <<>> THEN FALSE
  ELSE IF Head(a) # Head(b) THEN StrLt(Head(a).s, Head(b).s)
  ELSE KeyLt(Tail(a), Tail(b))

RECURSIVE SortedKeys(_)
SortedKeys(S) ==
  IF S = {} THEN <<>>
  ELSE LET m == CHOOSE x \in S : \A y \in S : x = y \/ KeyLt(x, y)
       IN <<m>> \o SortedKeys(S \ {m})

GroupSize(d, key) == Cardinality({ i \in 1..Len(d) : d[i] = key })

\* filtered_df.groupby(['Name','Risk','Host']).size().reset_index(name='Per_Host_Count')
detail_of(f) ==
  LET keys == [i \in 1..Len(f) |-> Key3(f[i])]
      groups == SortedKeys({ k \in Range(keys) : NoNa(k) })
  IN [g \in 1..Len(groups) |->
        [Name |-> groups[g][1], Risk |-> groups[g][2], Host |-> groups[g][3],
         Per_Host_Count |-> GroupSize(keys, groups[g])]]

\* filtered_df.groupby(['Name','Risk']).agg(Total_Count=('Risk','size')).reset_index()
summary_of(f) ==
  LET keys == [i \in 1..Len(f) |-> Key2(f[i])]
      groups == SortedKeys({ k \in Range(keys) : NoNa(k) })
  IN [g \in 1..Len(groups) |->
        [Name |-> groups[g][1], Risk |-> groups[g][2],
         Total_Count |-> IntCell(GroupSize(keys, groups[g]))]]

\* pd.merge(detail_df, summary_df, on=['Name','Risk'], how='left'): every left
\* row once per matching right row, or once with a null when none matches
RECURSIVE merge_left(_, _)
merge_left(detail, summary) ==
  IF detail = <<>> THEN <<>>
  ELSE LET l == Head(detail)
           hits == SelectSeq(summary, LAMBDA r : r.Name = l.Name /\ r.Risk = l.Risk)
           row(t) == [Name |-> l.Name, Risk |-> l.Risk, Total_Count |-> t,
                      Host |-> l.Host, Per_Host_Count |-> l.Per_Host_Count]
       IN (IF hits = <<>> THEN <<row(NaN)>>
           ELSE [h \in 1..Len(hits) |-> row(hits[h].Total_Count)])
          \o merge_left(Tail(detail), summary)

\* the position of a risk in the ordered categorical (0 when not a category)
RiskRank(c) ==
  IF isin(c, risk_order) THEN CHOOSE i \in DOMAIN risk_order : risk_order[i] = c ELSE 0

\* Risk ascending by category; nulls last
RiskBefore(a, b) ==
  IF RiskRank(a) = 0 \/ RiskRank(b) = 0 THEN RiskRank(a) # 0 /\ RiskRank(b) = 0
  ELSE RiskRank(a) < RiskRank(b)

\* Total_Count descending; nulls last
TotalBefore(a, b) ==
  IF IsNa(a) \/ IsNa(b) THEN ~IsNa(a) /\ IsNa(b) ELSE a.n > b.n

\* the sort with Total_Count ascending
RowBeforeTotalAscending(a, b) ==
  IF a.Risk # b.Risk THEN RiskBefore(a.Risk, b.Risk)
  ELSE IF a.Total_Count # b.Total_Count THEN TotalBefore(b.Total_Count, a.Total_Count)
  ELSE StrLt(a.Name.s, b.Name.s)

\* by=['Risk','Total_Count','Name'], ascending=[True, False, True]
RowBefore(a, b) ==
  IF a.Risk # b.Risk THEN RiskBefore(a.Risk, b.Risk)
  ELSE IF a.Total_Count # b.Total_Count THEN TotalBefore(a.Total_Count, b.Total_Count)
  ELSE StrLt(a.Name.s, b.Name.s)

\* a stable sort: a row goes after the rows it does not precede
RECURSIVE InsertRow(_, _)
InsertRow(sorted, r) ==
  IF sorted = <<>> THEN <<r>>
  ELSE IF RowBefore(r, Head(sorted)) THEN <<r>> \o sorted
  ELSE <<Head(sorted)>> \o InsertRow(Tail(sorted), r)

RECURSIVE sort_values(_)
sort_values(d) ==
  IF d = <<>> THEN <<>>
  ELSE InsertRow(sort_values(SubSeq(d, 1, Len(d) - 1)), d[Len(d)])

\* except Exception: SystemExit is a BaseException and no Exception
Catches(type) == type \in {"Exception"}

\* ------------------------------------------------- pipeline 2: the texts
hPluginID == <<80, 108, 117, 103, 105, 110, 32, 73, 68>>   \* "Plugin ID"
hHost == <<72, 111, 115, 116>>                              \* "Host"
hProtocol == <<80, 114, 111, 116, 111, 99, 111, 108>>       \* "Protocol"
hPort == <<80, 111, 114, 116>>                              \* "Port"
hName == <<78, 97, 109, 101>>                               \* "Name"
hNamePadded == <<32, 78, 97, 109, 101, 32>>                 \* " Name "
hRisk == <<82, 105, 115, 107>>                              \* "Risk"
hStatus == <<83, 116, 97, 116, 117, 115>>                   \* "Status"
sBlankCol == <<66, 108, 97, 110, 107, 67, 111, 108, 95>>    \* "BlankCol_"
sTcp == <<116, 99, 112>>                                    \* "tcp"
sTcpUp == <<84, 67, 80>>                                    \* "TCP"
sBlank == <<32, 32>>                                        \* "  "
sTotal == <<84, 111, 116, 97, 108>>                         \* "Total"
sCriticalLower == <<99, 114, 105, 116, 105, 99, 97, 108>>   \* "critical"
sMediumPadded == <<109, 101, 100, 105, 117, 109, 32>>       \* "medium "
sNewIssue == <<78, 101, 119, 32, 73, 115, 115, 117, 101>>   \* "New Issue"
sExisting == <<69, 120, 105, 115, 116, 105, 110, 103>>      \* "Existing"
sInfo == <<73, 110, 102, 111>>                              \* "Info"
sDash == <<45>>                                             \* "-"
sDotZero == <<46, 48>>                                      \* ".0"
kTOTAL == <<84, 79, 84, 65, 76>>                            \* "TOTAL"
kCRITICAL == <<67, 82, 73, 84, 73, 67, 65, 76>>             \* "CRITICAL"
kHIGH == <<72, 73, 71, 72>>                                 \* "HIGH"
kMEDIUM == <<77, 69, 68, 73, 85, 77>>                       \* "MEDIUM"
kLOW == <<76, 79, 87>>                                      \* "LOW"

\* str() of a non-negative integer
RECURSIVE Digits(_)
Digits(n) == IF n < 10 THEN <<48 + n>> ELSE Digits(n \div 10) \o <<48 + (n % 10)>>

\* str(val): text as it is, an int in decimal, the float n.0 as "n.0"
str(val) ==
  IF val.k = "str" THEN val.s
  ELSE IF val.k = "int" THEN Digits(val.n)
  ELSE Digits(val.n) \o sDotZero

\* lines 7-10
standardize(val) == IF IsNa(val) THEN <<>> ELSE upper(strip(str(val)))

match_cols == <<"Plugin ID", "Host", "Protocol", "Port">>

HeaderText(col) ==
  CASE col = "Plugin ID" -> hPluginID
    [] col = "Host" -> hHost
    [] col = "Protocol" -> hProtocol
    [] col = "Port" -> hPort
    [] col = "Name" -> hName
    [] col = "Risk" -> hRisk

\* ------------------------------------------------ pipeline 2: the inputs
\* A row of the prior workbook, by column name; cells as the workbook holds
\* them (text, integer, or nothing).
PriorRow(plugin, host, protocol, port) ==
  [c \in Range(match_cols) |->
     CASE c = "Plugin ID" -> plugin
       [] c = "Host" -> host
       [] c = "Protocol" -> protocol
       [] c = "Port" -> port]

PriorRows ==
  { PriorRow(IntCell(10), Str(sH1), Str(sTcp), IntCell(80)),
    PriorRow(IntCell(11), Str(sH1up), Str(sTcpUp), IntCell(80)),
    PriorRow(NaN, Str(sH1), Str(sTcp), IntCell(80)) }          \* no Plugin ID

\* the prior workbook: one sheet, or its rows split over two sheets
PriorWorkbooks ==
  UNION { {<<recs>>} \cup
          { <<SubSeq(recs, 1, c), SubSeq(recs, c + 1, Len(recs))>> :
              c \in 1..(Len(recs) - 1) }
          : recs \in SeqsUpTo(PriorRows, MaxPriorRows) }

\* A data row of a current sheet, by field.
Fields == {"Plugin ID", "Host", "Protocol", "Port", "Name", "Risk"}

CurrentRow(plugin, host, protocol, port, name, risk) ==
  [c \in Fields |->
     CASE c = "Plugin ID" -> plugin
       [] c = "Host" -> host
       [] c = "Protocol" -> protocol
       [] c = "Port" -> port
       [] c = "Name" -> name
       [] c = "Risk" -> risk]

CurrentRows ==
  { CurrentRow(IntCell(10), Str(sH1), Str(sTcp), IntCell(80), Str(sA), Str(sHigh)),
    \* the same issue in another case and spacing
    CurrentRow(IntCell(10), Str(sH1up), Str(sTcpUp), IntCell(80), Str(sA),
               Str(sCriticalLower)),
    CurrentRow(IntCell(11), Str(sH1), Str(sTcp), IntCell(80), Str(sB), Str(sTotal)),
    CurrentRow(NaN, Str(sH1), Str(sTcp), IntCell(80), Str(sA), Str(sLow)),
    CurrentRow(Str(sBlank), Str(sH1), Str(sTcp), IntCell(80), Str(sA),
               Str(sMediumPadded)),
    CurrentRow(IntCell(11), Str(sH2), Str(sTcp), IntCell(80), Str(sB), Str(sInfo)) }

\* The columns of a sheet, left to right: the header cell and the field the
\* column holds ("" for a column that holds none).
Col(header, field) == [header |-> header, field |-> field]

Layouts ==
  { <<Col(Str(hPluginID), "Plugin ID"), Col(Str(hRisk), "Risk"), Col(Str(hHost), "Host"),
      Col(Str(hProtocol), "Protocol"), Col(Str(hPort), "Port"),
      Col(Str(hNamePadded), "Name")>>,
    <<Col(Str(hName), "Name"), Col(Str(hPluginID), "Plugin ID"), Col(Str(hHost), "Host"),
      Col(Str(hProtocol), "Protocol"), Col(Str(hPort), "Port"), Col(Str(hRisk), "Risk")>>,
    <<Col(Str(hPluginID), "Plugin ID"), Col(Str(hHost), "Host"),
      Col(Str(hProtocol), "Protocol"), Col(Str(hPort), "Port"), Col(Str(hName), "Name"),
      Col(NaN, "")>> }

\* the worksheet as openpyxl loads it: row 1 the headers, then the data rows
Sheet(layout, rows) ==
  <<[j \in 1..Len(layout) |-> layout[j].header]>> \o
  [i \in 1..Len(rows) |->
     [j \in 1..Len(layout) |->
        IF layout[j].field = "" THEN NaN ELSE rows[i][layout[j].field]]]

CurrentSheets ==
  { Sheet(layout, rows) : layout \in Layouts, rows \in SeqsUpTo(CurrentRows, MaxRows) }

\* wb.sheetnames of the current workbooks: the sheets in workbook order
Workbooks == { <<"DomainA">>, <<"DomainB", "DomainA">> }

\* ------------------------------------- pipeline 2: the prior fingerprints
\* pd.read_excel infers a type per column of a sheet: text anywhere makes it
\* object; otherwise integers with a missing value make it float64.
ColumnKind(sheet, c) ==
  IF \E i \in DOMAIN sheet : sheet[i][c].k = "str" THEN "object"
  ELSE IF sheet = <<>> THEN "object"
  ELSE IF \E i \in DOMAIN sheet : IsNa(sheet[i][c]) THEN "float64"
  ELSE "int64"

AsFloat(val) == IF val.k = "int" THEN FloatCell(val.n) ELSE val

\* pd.read_excel(q3_path, sheet_name=None), one sheet
read_excel(sheet) ==
  [i \in DOMAIN sheet |->
     [c \in Range(match_cols) |->
        IF ColumnKind(sheet, c) = "float64" THEN AsFloat(sheet[i][c]) ELSE sheet[i][c]]]

\* pd.concat(q3_dict.values(), ignore_index=True): a column that is numeric in
\* every sheet and float64 in one becomes float64 in all
ConcatKind(book, c) ==
  LET kinds == { ColumnKind(book[k], c) : k \in { k \in DOMAIN book : book[k] # <<>> } }
  IN IF "object" \in kinds THEN "object"
     ELSE IF "float64" \in kinds THEN "float64"
     ELSE "int64"

df_q3_all_of(book) ==
  LET frames == [k \in DOMAIN book |-> read_excel(book[k])]
      all == concat(frames)
  IN [i \in DOMAIN all |->
        [c \in Range(match_cols) |->
           IF ConcatKind(book, c) = "float64" THEN AsFloat(all[i][c]) ELSE all[i][c]]]

\* lines 52, 78, 99: the fingerprint of a row whose cells `cell` gives by column
FingerprintOf(cell) == [i \in 1..Len(match_cols) |-> standardize(cell[match_cols[i]])]

\* lines 50-54: fingerprints with an empty first component are left out
q3_set_of(book) ==
  LET all == df_q3_all_of(book)
  IN { FingerprintOf(all[i]) : i \in { i \in DOMAIN all : FingerprintOf(all[i])[1] # <<>> } }

\* ------------------------------------------- pipeline 2: the worksheet
\* a cell value that Python takes for false: None, "" or 0
Falsy(val) == IsNa(val) \/ (val.k = "str" /\ val.s = <<>>) \/ (val.k = "int" /\ val.n = 0)

\* line 65: the header texts, trimmed; "BlankCol_<i>" for an empty header
headers_of(sheet) ==
  [j \in 1..Len(sheet[1]) |->
     IF Falsy(sheet[1][j]) THEN sBlankCol \o Digits(j - 1) ELSE strip(str(sheet[1][j]))]

HasHeader(headers, col) == \E j \in DOMAIN headers : headers[j] = HeaderText(col)

\* headers.index(col) + 1: the first column with that header, counted from 1
index(headers, col) ==
  CHOOSE j \in DOMAIN headers :
    /\ headers[j] = HeaderText(col)
    /\ \A h \in 1..(j - 1) : headers[h] # HeaderText(col)

\* line 69
col_map_of(sheet) == [col \in Fields |-> index(headers_of(sheet), col)]

\* ws.cell(row, column).value; a cell that was never set holds None
cell(sheet, row, column) ==
  IF column \in DOMAIN sheet[row] THEN sheet[row][column] ELSE NaN

\* lines 78, 99: the fingerprint read from a row through col_map
RowFingerprint(sheet, row, cm) ==
  [i \in 1..Len(match_cols) |-> standardize(cell(sheet, row, cm[match_cols[i]]))]

\* lines 77-82, from row_idx on: the fingerprints seen and the rows to delete
RECURSIVE ScanFrom(_, _, _, _, _)
ScanFrom(sheet, cm, row_idx, seen, del) ==
  IF row_idx > Len(sheet) THEN [seen |-> seen, del |-> del]
  ELSE LET f_q4 == RowFingerprint(sheet, row_idx, cm)
       IN IF f_q4 \in seen \/ IsNa(cell(sheet, row_idx, cm["Plugin ID"]))
          THEN ScanFrom(sheet, cm, row_idx + 1, seen, Append(del, row_idx))
          ELSE ScanFrom(sheet, cm, row_idx + 1, seen \cup {f_q4}, del)

\* ws.delete_rows(idx): the row goes and the rows below move up
delete_rows(sheet, idx) ==
  SubSeq(sheet, 1, idx - 1) \o SubSeq(sheet, idx + 1, Len(sheet))

\* lines 84-85: for row_idx in reversed(rows_to_delete)
RECURSIVE DeleteReversed(_, _)
DeleteReversed(sheet, del) ==
  IF del = <<>> THEN sheet
  ELSE DeleteReversed(delete_rows(sheet, del[Len(del)]), SubSeq(del, 1, Len(del) - 1))

\* ws.insert_cols(idx): an empty column; the columns from idx on move right
insert_cols(sheet, idx) ==
  [i \in 1..Len(sheet) |->
     SubSeq(sheet[i], 1, idx - 1) \o <<NaN>> \o SubSeq(sheet[i], idx, Len(sheet[i]))]

SetCell(sheet, row, column, val) ==
  [sheet EXCEPT ![row] = [@ EXCEPT ![column] = val]]

\* lines 93-96
CountKeys == {kTOTAL, kCRITICAL, kHIGH, kMEDIUM, kLOW}
ZeroCounts == [category \in {"new", "existing"} |-> [key \in CountKeys |-> 0]]

\* lines 108-110
Count(tally, category, risk_val) ==
  LET total == [tally EXCEPT ![category][kTOTAL] = @ + 1]
  IN IF risk_val \in DOMAIN total[category]
     THEN [total EXCEPT ![category][risk_val] = @ + 1]
     ELSE total

\* lines 98-110, from row_idx on: col_map is the one computed before the
\* Status column was inserted
RECURSIVE ClassifyFrom(_, _, _, _, _, _)
ClassifyFrom(sheet, cm, status_col, q3, row_idx, tally) ==
  IF row_idx > Len(sheet) THEN [ws |-> sheet, counts |-> tally]
  ELSE LET check_key == RowFingerprint(sheet, row_idx, cm)
           risk_val == standardize(cell(sheet, row_idx, cm["Risk"]))
           category == IF check_key \notin q3 THEN "new" ELSE "existing"
           label == IF category = "new" THEN Str(sNewIssue) ELSE Str(sExisting)
       IN ClassifyFrom(SetCell(sheet, row_idx, status_col, label), cm, status_col, q3,
                       row_idx + 1, Count(tally, category, risk_val))

\* lines 88-90
WithStatusColumn(sheet, status_col) ==
  SetCell(insert_cols(sheet, status_col), 1, status_col, Str(hStatus))

\* ----------------------------------------- pipeline 2: the summary sheet
risks == <<kCRITICAL, kHIGH, kMEDIUM, kLOW>>
ZeroTotals ==
  [new |-> 0, ext |-> 0, new_r |-> [i \in DOMAIN risks |-> 0],
   ext_r |-> [i \in DOMAIN risks |-> 0]]

\* val or "-"
Render(val) == IF val = 0 THEN Str(sDash) ELSE IntCell(val)

\* the fold with the existing total fed from the new count
AddDomainCrossed(g, data) ==
  [new |-> g.new + data["new"][kTOTAL],
   ext |-> g.ext + data["new"][kTOTAL],
   new_r |-> [i \in DOMAIN risks |-> g.new_r[i] + data["new"][risks[i]]],
   ext_r |-> [i \in DOMAIN risks |-> g.ext_r[i] + data["existing"][risks[i]]]]

\* lines 138-142
AddDomain(g, data) ==
  [new |-> g.new + data["new"][kTOTAL],
   ext |-> g.ext + data["existing"][kTOTAL],
   new_r |-> [i \in DOMAIN risks |-> g.new_r[i] + data["new"][risks[i]]],
   ext_r |-> [i \in DOMAIN risks |-> g.ext_r[i] + data["existing"][risks[i]]]]

\* lines 132-143: g_total after the loop of table 1
RECURSIVE g_total_of(_)
g_total_of(summary) ==
  IF summary = <<>> THEN ZeroTotals
  ELSE AddDomain(g_total_of(SubSeq(summary, 1, Len(summary) - 1)),
                 summary[Len(summary)].counts)

TableRow(domain, values) ==
  [domain |-> domain, cells |-> [i \in DOMAIN values |-> Render(values[i])]]

\* lines 132-148: New Issue, Existing Issue, Total Issue
TableA(summary, g) ==
  [i \in DOMAIN summary |->
     LET data == summary[i].counts
     IN TableRow(summary[i].domain,
                 <<data["new"][kTOTAL], data["existing"][kTOTAL],
                   data["new"][kTOTAL] + data["existing"][kTOTAL]>>)]
  \o <<TableRow("Total", <<g.new, g.ext, g.new + g.ext>>)>>

\* lines 159-169 and 180-190: the four risks, then Total
RiskTable(summary, category, by_risk, total) ==
  [i \in DOMAIN summary |->
     LET data == summary[i].counts[category]
     IN TableRow(summary[i].domain,
                 [r \in DOMAIN risks |-> data[risks[r]]] \o <<data[kTOTAL]>>)]
  \o <<TableRow("Total", by_risk \o <<total>>)>>

NoTables == [A |-> <<>>, B |-> <<>>, C |-> <<>>]

\* ------------------------------------------------------- the two scripts
\* Each script is a program of its own: while one runs, the variables of the
\* other stay as they are here.
NoColMap == [col \in Fields |-> 0]

Idle1 ==
  /\ INPUT_FILES = <<>>
  /\ file_idx = 1
  /\ all_dfs = <<>>
  /\ skipped = {}
  /\ df = <<>>
  /\ filtered_df = <<>>
  /\ report_df = <<>>
  /\ OUTPUT_FILE = NoOutput
  /\ exc = NoException
  /\ exit_status = 0
  /\ pc1 = "idle"

Idle2 ==
  /\ files_found = [q3 |-> FALSE, q4 |-> FALSE]
  /\ q3_existing_issues = {}
  /\ sheetnames = <<>>
  /\ sheet_idx = 1
  /\ q4_sheet = <<>>
  /\ ws = <<>>
  /\ col_map = NoColMap
  /\ seen_in_q4 = {}
  /\ rows_to_delete = <<>>
  /\ status_col_idx = 0
  /\ counts = ZeroCounts
  /\ summary_data = <<>>
  /\ g_total = ZeroTotals
  /\ tables = NoTables
  /\ saved = FALSE
  /\ pc2 = "idle"

\* ------------------------------------------------ pipeline 1: the script
Init1 ==
  /\ \E status \in SeqsUpTo(FileStatus, MaxFiles) :
       LET k == OkBefore(status, Len(status))
       IN \E recs \in (IF k = 0 THEN {<<>>} ELSE SeqsUpTo(CsvRecords, MaxRecords)) :
            \E cut \in Cuts(k, Len(recs)) :
              INPUT_FILES = Batch(status, recs, cut)
  /\ file_idx = 1
  /\ all_dfs = <<>>
  /\ skipped = {}
  /\ df = <<>>
  /\ filtered_df = <<>>
  /\ report_df = <<>>
  /\ OUTPUT_FILE = NoOutput
  /\ exc = NoException
  /\ exit_status = 0
  /\ pc1 = "read"
  /\ Idle2

\* lines 19-23: the file is not there: warn and go on
SkipMissingFile ==
  /\ pc1 = "read"
  /\ file_idx <= Len(INPUT_FILES)
  /\ INPUT_FILES[file_idx].status = "missing"
  /\ skipped' = skipped \cup {file_idx}
  /\ file_idx' = file_idx + 1
  /\ UNCHANGED <<INPUT_FILES, all_dfs, df, filtered_df, report_df, OUTPUT_FILE,
                 exc, exit_status, pc1>>
  /\ UNCHANGED vars2

\* lines 26-29: the file is read, tagged and kept
ReadCsv ==
  /\ pc1 = "read"
  /\ file_idx <= Len(INPUT_FILES)
  /\ INPUT_FILES[file_idx].status = "ok"
  /\ all_dfs' = Append(all_dfs, TagSource(INPUT_FILES[file_idx].rows, file_idx))
  /\ file_idx' = file_idx + 1
  /\ UNCHANGED <<INPUT_FILES, skipped, df, filtered_df, report_df, OUTPUT_FILE,
                 exc, exit_status, pc1>>
  /\ UNCHANGED vars2

\* line 26: pd.read_csv raises on a file it cannot read or parse
ReadCsvRaises ==
  /\ pc1 = "read"
  /\ file_idx <= Len(INPUT_FILES)
  /\ INPUT_FILES[file_idx].status = "unreadable"
  /\ exc' = [type |-> "Exception", code |-> 0]
  /\ pc1' = "raised"
  /\ UNCHANGED <<INPUT_FILES, file_idx, all_dfs, skipped, df, filtered_df,
                 report_df, OUTPUT_FILE, exit_status>>
  /\ UNCHANGED vars2

\* lines 31-33: nothing was read: sys.exit(1)
ExitNoInput ==
  /\ pc1 = "read"
  /\ file_idx > Len(INPUT_FILES)
  /\ all_dfs = <<>>
  /\ exc' = [type |-> "SystemExit", code |-> 1]
  /\ pc1' = "raised"
  /\ UNCHANGED <<INPUT_FILES, file_idx, all_dfs, skipped, df, filtered_df,
                 report_df, OUTPUT_FILE, exit_status>>
  /\ UNCHANGED vars2

\* lines 36-50: combine, then deduplicate on (Name, Host, Port)
Deduplicate ==
  /\ pc1 = "read"
  /\ file_idx > Len(INPUT_FILES)
  /\ all_dfs # <<>>
  /\ df' = drop_duplicates(concat(all_dfs))
  /\ pc1' = "filter"
  /\ UNCHANGED <<INPUT_FILES, file_idx, all_dfs, skipped, filtered_df, report_df,
                 OUTPUT_FILE, exc, exit_status>>
  /\ UNCHANGED vars2

\* lines 59-60: keep the rows with a listed risk
Filter ==
  /\ pc1 = "filter"
  /\ filtered_df' = FilterRisk(df)
  /\ pc1' = IF filtered_df' = <<>> THEN "empty" ELSE "aggregate"
  /\ UNCHANGED <<INPUT_FILES, file_idx, all_dfs, skipped, df, report_df,
                 OUTPUT_FILE, exc, exit_status>>
  /\ UNCHANGED vars2

\* lines 62-67: nothing is left: write the header alone, then sys.exit(0)
WriteEmpty ==
  /\ pc1 = "empty"
  /\ OUTPUT_FILE' = [written |-> TRUE, header |-> ReportHeader, rows |-> <<>>]
  /\ exc' = [type |-> "SystemExit", code |-> 0]
  /\ pc1' = "raised"
  /\ UNCHANGED <<INPUT_FILES, file_idx, all_dfs, skipped, df, filtered_df,
                 report_df, exit_status>>
  /\ UNCHANGED vars2

\* lines 69-81: per-host counts, totals, and their left join
Aggregate ==
  /\ pc1 = "aggregate"
  /\ report_df' = merge_left(detail_of(filtered_df), summary_of(filtered_df))
  /\ pc1' = "sort"
  /\ UNCHANGED <<INPUT_FILES, file_idx, all_dfs, skipped, df, filtered_df,
                 OUTPUT_FILE, exc, exit_status>>
  /\ UNCHANGED vars2

\* lines 84-107: the risk column becomes an ordered categorical; sort
SortReport ==
  /\ pc1 = "sort"
  /\ report_df' = sort_values(report_df)
  /\ pc1' = "write"
  /\ UNCHANGED <<INPUT_FILES, file_idx, all_dfs, skipped, df, filtered_df,
                 OUTPUT_FILE, exc, exit_status>>
  /\ UNCHANGED vars2

\* line 116: the report is written; the script ends
WriteReport ==
  /\ pc1 = "write"
  /\ OUTPUT_FILE' = [written |-> TRUE, header |-> ReportHeader, rows |-> report_df]
  /\ pc1' = "exited"
  /\ UNCHANGED <<INPUT_FILES, file_idx, all_dfs, skipped, df, filtered_df,
                 report_df, exc, exit_status>>
  /\ UNCHANGED vars2

\* lines 122-123: the handler prints and the script ends normally; what it
\* does not catch ends the process with the exit code raised
Propagate ==
  /\ pc1 = "raised"
  /\ exit_status' = IF Catches(exc.type) THEN 0 ELSE exc.code
  /\ pc1' = "exited"
  /\ UNCHANGED <<INPUT_FILES, file_idx, all_dfs, skipped, df, filtered_df,
                 report_df, OUTPUT_FILE, exc>>
  /\ UNCHANGED vars2

Next1 ==
  \/ SkipMissingFile
  \/ ReadCsv
  \/ ReadCsvRaises
  \/ ExitNoInput
  \/ Deduplicate
  \/ Filter
  \/ WriteEmpty
  \/ Aggregate
  \/ SortReport
  \/ WriteReport
  \/ Propagate


\* ------------------------------------------------ pipeline 2: the script
Init2 ==
  /\ files_found \in [q3 : BOOLEAN, q4 : BOOLEAN]
  /\ q3_existing_issues = {}
  /\ sheetnames \in (IF files_found.q3 /\ files_found.q4 THEN Workbooks ELSE {<<>>})
  /\ sheet_idx = 1
  /\ q4_sheet = <<>>
  /\ ws = <<>>
  /\ col_map = NoColMap
  /\ seen_in_q4 = {}
  /\ rows_to_delete = <<>>
  /\ status_col_idx = 0
  /\ counts = ZeroCounts
  /\ summary_data = <<>>
  /\ g_total = ZeroTotals
  /\ tables = NoTables
  /\ saved = FALSE
  /\ pc2 = "start"
  /\ Idle1

\* lines 38-40: a workbook is missing: report and return
AbortNoFiles ==
  /\ pc2 = "start"
  /\ ~(files_found.q3 /\ files_found.q4)
  /\ pc2' = "returned"
  /\ UNCHANGED <<files_found, q3_existing_issues, sheetnames, sheet_idx, q4_sheet, ws,
                 col_map, seen_in_q4, rows_to_delete, status_col_idx, counts, summary_data,
                 g_total, tables, saved>>
  /\ UNCHANGED vars1

\* lines 47-54: every sheet of the prior workbook goes into the lookup set
LoadQ3 ==
  /\ pc2 = "start"
  /\ files_found.q3 /\ files_found.q4
  /\ \E book \in PriorWorkbooks : q3_existing_issues' = q3_set_of(book)
  /\ pc2' = "sheets"
  /\ UNCHANGED <<files_found, sheetnames, sheet_idx, q4_sheet, ws, col_map, seen_in_q4,
                 rows_to_delete, status_col_idx, counts, summary_data, g_total, tables, saved>>
  /\ UNCHANGED vars1

\* lines 64-71: a sheet without all six headers is passed over
SkipSheet ==
  /\ pc2 = "sheets"
  /\ sheet_idx <= Len(sheetnames)
  /\ \E sheet \in CurrentSheets :
       \E col \in Fields : ~HasHeader(headers_of(sheet), col)
  /\ sheet_idx' = sheet_idx + 1
  /\ UNCHANGED <<files_found, q3_existing_issues, sheetnames, q4_sheet, ws, col_map,
                 seen_in_q4,
                 rows_to_delete, status_col_idx, counts, summary_data, g_total, tables, saved,
                 pc2>>
  /\ UNCHANGED vars1

\* lines 64-69: the sheet is taken in hand and its columns are mapped
OpenSheet ==
  /\ pc2 = "sheets"
  /\ sheet_idx <= Len(sheetnames)
  /\ \E sheet \in CurrentSheets :
       /\ \A col \in Fields : HasHeader(headers_of(sheet), col)
       /\ q4_sheet' = sheet
       /\ ws' = sheet
       /\ col_map' = col_map_of(sheet)
  /\ pc2' = "dedup"
  /\ UNCHANGED <<files_found, q3_existing_issues, sheetnames, sheet_idx, seen_in_q4,
                 rows_to_delete, status_col_idx, counts, summary_data, g_total, tables, saved>>
  /\ UNCHANGED vars1

\* lines 73-82: one pass collects the rows to delete
DedupScan ==
  /\ pc2 = "dedup"
  /\ LET scan == ScanFrom(ws, col_map, 2, {}, <<>>)
     IN /\ seen_in_q4' = scan.seen
        /\ rows_to_delete' = scan.del
  /\ pc2' = "delete"
  /\ UNCHANGED <<files_found, q3_existing_issues, sheetnames, sheet_idx, q4_sheet, ws,
                 col_map, status_col_idx, counts, summary_data, g_total, tables, saved>>
  /\ UNCHANGED vars1

\* lines 84-85: they are deleted from the bottom up
DeleteRows ==
  /\ pc2 = "delete"
  /\ ws' = DeleteReversed(ws, rows_to_delete)
  /\ pc2' = "classify"
  /\ UNCHANGED <<files_found, q3_existing_issues, sheetnames, sheet_idx, q4_sheet,
                 col_map, seen_in_q4, rows_to_delete, status_col_idx, counts, summary_data,
                 g_total, tables, saved>>
  /\ UNCHANGED vars1

\* lines 88-110: the Status column is inserted after Name, then every row
\* is labelled and counted
ClassifyRows ==
  /\ pc2 = "classify"
  /\ status_col_idx' = col_map["Name"] + 1
  /\ LET done == ClassifyFrom(WithStatusColumn(ws, status_col_idx'), col_map,
                              status_col_idx', q3_existing_issues, 2, ZeroCounts)
     IN /\ ws' = done.ws
        /\ counts' = done.counts
  /\ pc2' = "store"
  /\ UNCHANGED <<files_found, q3_existing_issues, sheetnames, sheet_idx, q4_sheet,
                 col_map, seen_in_q4, rows_to_delete, summary_data, g_total, tables,
                 saved>>
  /\ UNCHANGED vars1

\* line 112, and on to the next sheet: the counts are kept under the sheet's
\* name. The names of the loop body are bound anew by the next iteration and
\* the sheet that was handled is not read again, so they are let go here.
StoreCounts ==
  /\ pc2 = "store"
  /\ summary_data' =
       Append(summary_data, [domain |-> sheetnames[sheet_idx], counts |-> counts])
  /\ sheet_idx' = sheet_idx + 1
  /\ q4_sheet' = <<>>
  /\ ws' = <<>>
  /\ col_map' = NoColMap
  /\ seen_in_q4' = {}
  /\ rows_to_delete' = <<>>
  /\ status_col_idx' = 0
  /\ counts' = ZeroCounts
  /\ pc2' = "sheets"
  /\ UNCHANGED <<files_found, q3_existing_issues, sheetnames, g_total, tables, saved>>
  /\ UNCHANGED vars1

\* lines 115-190: the totals are folded and the three tables laid out
BuildSummary ==
  /\ pc2 = "sheets"
  /\ sheet_idx > Len(sheetnames)
  /\ g_total' = g_total_of(summary_data)
  /\ tables' = [A |-> TableA(summary_data, g_total'),
                B |-> RiskTable(summary_data, "new", g_total'.new_r, g_total'.new),
                C |-> RiskTable(summary_data, "existing", g_total'.ext_r, g_total'.ext)]
  /\ pc2' = "save"
  /\ UNCHANGED <<files_found, q3_existing_issues, sheetnames, sheet_idx, q4_sheet, ws,
                 col_map, seen_in_q4, rows_to_delete, status_col_idx, counts, summary_data, saved>>
  /\ UNCHANGED vars1

\* line 197
Save ==
  /\ pc2 = "save"
  /\ saved' = TRUE
  /\ pc2' = "done"
  /\ UNCHANGED <<files_found, q3_existing_issues, sheetnames, sheet_idx, q4_sheet, ws,
                 col_map, seen_in_q4, rows_to_delete, status_col_idx, counts, summary_data,
                 g_total, tables>>
  /\ UNCHANGED vars1

Next2 ==
  \/ AbortNoFiles
  \/ LoadQ3
  \/ SkipSheet
  \/ OpenSheet
  \/ DedupScan
  \/ DeleteRows
  \/ ClassifyRows
  \/ StoreCounts
  \/ BuildSummary
  \/ Save

\* ------------------------------------------------------ specifications
\* SummaryVAfromCSV.py
Spec1 == Init1 /\ [][Next1]_vars

\* VAcompareNewIssue.py
Spec2 == Init2 /\ [][Next2]_vars

\* =============================================================== claims
RECURSIVE SumSeq(_)
SumSeq(q) == IF q = <<>> THEN 0 ELSE Head(q) + SumSeq(Tail(q))

\* ------------------------------------------------------------ pipeline 1
OutputRows == OUTPUT_FILE.rows

\* the fingerprint the specification gives pipeline 1: (name, host, port),
\* trimmed and upper-cased
NormalizedKey(r) == <<standardize(r.Name), standardize(r.Host), standardize(r.Port)>>

\* the records read, in file order then row order
InputRecords == concat(all_dfs)

\* the records that are the first with their (Name, Host, Port) and carry a
\* listed risk
Eligible ==
  { i \in DOMAIN InputRecords :
      /\ \A j \in 1..(i - 1) : DedupKey(InputRecords[j]) # DedupKey(InputRecords[i])
      /\ InputRecords[i].Risk \in {Str(sCritical), Str(sHigh), Str(sMedium)} }

SomeFileReadable == \E i \in DOMAIN INPUT_FILES : INPUT_FILES[i].status = "ok"

\* C2: in the output, every row has a Total_Count, and it is the sum of
\* Per_Host_Count over the rows with the same (Name, Risk).
C2_TotalIsSumOfPerHost ==
  OUTPUT_FILE.written =>
    \A i \in DOMAIN OutputRows :
      LET r == OutputRows[i]
          same == SelectSeq(OutputRows, LAMBDA o : o.Name = r.Name /\ o.Risk = r.Risk)
      IN /\ ~IsNa(r.Total_Count)
         /\ r.Total_Count.n = SumSeq([k \in DOMAIN same |-> same[k].Per_Host_Count])

\* C3: after deduplication no two records have (Name, Host, Port) that differ
\* only in letter case or surrounding whitespace.
C3_DedupNormalizes ==
  \A i, j \in DOMAIN df : i < j => NormalizedKey(df[i]) # NormalizedKey(df[j])

\* C6: adjacent output rows are in (risk rank, Total_Count descending, Name)
\* order with Critical < High < Medium, and every output row has exactly one
\* of these three risks.
RankOfRisk(c) ==
  CASE c = Str(sCritical) -> 1
    [] c = Str(sHigh) -> 2
    [] c = Str(sMedium) -> 3
    [] OTHER -> 4

InOrder(r1, r2) ==
  \/ RankOfRisk(r1.Risk) < RankOfRisk(r2.Risk)
  \/ /\ RankOfRisk(r1.Risk) = RankOfRisk(r2.Risk)
     /\ \/ r1.Total_Count.n > r2.Total_Count.n
        \/ /\ r1.Total_Count.n = r2.Total_Count.n
           /\ ~StrLt(r2.Name.s, r1.Name.s)

C6_OutputSortedAndListed ==
  OUTPUT_FILE.written =>
    /\ \A i \in 1..(Len(OutputRows) - 1) : InOrder(OutputRows[i], OutputRows[i + 1])
    /\ \A i \in DOMAIN OutputRows :
         OutputRows[i].Risk \in {Str(sCritical), Str(sHigh), Str(sMedium)}

\* C6 witness: a written report in which a Critical row stands before a High
\* row whose name sorts first, from an input that also held a record with a
\* risk that is not listed.
C6_Witness ==
  /\ OUTPUT_FILE.written
  /\ \E i \in 1..(Len(OutputRows) - 1) :
       /\ OutputRows[i].Risk = Str(sCritical)
       /\ OutputRows[i + 1].Risk = Str(sHigh)
       /\ StrLt(OutputRows[i + 1].Name.s, OutputRows[i].Name.s)
  /\ \E i \in DOMAIN InputRecords :
       InputRecords[i].Risk \in {Str(sLow), Str(sHighLower)}

\* C7: when a file of the batch is readable the run ends with the report
\* written, whatever the other files are.
C7_UnreadableFileIsSkipped ==
  (pc1 = "exited" /\ SomeFileReadable) => OUTPUT_FILE.written

\* C8: a run that read no file ends with exit status 1 and no output; a run
\* that read a file and kept no record ends with exit status 0 and an output
\* holding the header alone.
C8_TerminalOutcomes ==
  pc1 = "exited" =>
    /\ ~SomeFileReadable => (exit_status = 1 /\ ~OUTPUT_FILE.written)
    /\ (SomeFileReadable /\ Eligible = {} /\ all_dfs # <<>>) =>
         /\ exit_status = 0
         /\ OUTPUT_FILE = [written |-> TRUE, header |-> ReportHeader, rows |-> <<>>]

\* C10: a record is counted in the output exactly when it is the first with
\* its (Name, Host, Port) and its own risk is listed: every such record has
\* its row, Per_Host_Count counts such records only, and the counts add up to
\* no more than the distinct keys of the input.
C10_CountedIffFirstAndListed ==
  OUTPUT_FILE.written =>
    /\ \A i \in Eligible :
         \E k \in DOMAIN OutputRows :
           <<OutputRows[k].Name, OutputRows[k].Risk, OutputRows[k].Host>>
             = Key3(InputRecords[i])
    /\ \A k \in DOMAIN OutputRows :
         OutputRows[k].Per_Host_Count =
           Cardinality({ i \in Eligible :
                           Key3(InputRecords[i])
                             = <<OutputRows[k].Name, OutputRows[k].Risk, OutputRows[k].Host>> })
    /\ SumSeq([k \in DOMAIN OutputRows |-> OutputRows[k].Per_Host_Count])
         <= Cardinality({ DedupKey(InputRecords[i]) : i \in DOMAIN InputRecords })

\* ------------------------------------------------------------ pipeline 2
\* the data rows of a sheet
DataRows(sheet) == 2..Len(sheet)

\* a row of the edited sheet as it stood in the input: without Status
WithoutStatus(row) ==
  SubSeq(row, 1, status_col_idx - 1) \o SubSeq(row, status_col_idx + 1, Len(row))

\* the fingerprint of an input row, read under the input's own headers
InputFingerprint(row) ==
  LET at == col_map_of(q4_sheet)
  IN [i \in 1..Len(match_cols) |-> standardize(row[at[match_cols[i]]])]

Labels == {Str(sNewIssue), Str(sExisting)}

\* C1: a labelled row reads "New Issue" exactly when the fingerprint of the
\* row, as it stood in the input, is not among the prior fingerprints.
C1_StatusMatchesPriorSet ==
  pc2 = "store" =>
    \A r \in DataRows(ws) :
      /\ ws[r][status_col_idx] \in Labels
      /\ (ws[r][status_col_idx] = Str(sNewIssue))
           <=> (InputFingerprint(WithoutStatus(ws[r])) \notin q3_existing_issues)

\* C4: every row left after deduplication has one of the two labels, and the
\* two totals add up to the number of those rows.
C4_TotalsCountRows ==
  pc2 = "store" =>
    /\ \A r \in DataRows(ws) : ws[r][status_col_idx] \in Labels
    /\ counts["new"][kTOTAL] + counts["existing"][kTOTAL] = Len(ws) - 1

\* the rows the deduplication is to leave: the first row of every
\* fingerprint whose Plugin ID component is not empty, in input order
RECURSIVE FirstOccurrencesFrom(_, _)
FirstOccurrencesFrom(sheet, r) ==
  IF r > Len(sheet) THEN <<>>
  ELSE (IF /\ InputFingerprint(sheet[r])[1] # <<>>
           /\ \A e \in 2..(r - 1) : InputFingerprint(sheet[e]) # InputFingerprint(sheet[r])
        THEN <<sheet[r]>> ELSE <<>>) \o FirstOccurrencesFrom(sheet, r + 1)

\* C5: after the rows are deleted, the data rows are the first occurrences of
\* the fingerprints, in order, and none has an empty or missing Plugin ID.
C5_DedupKeepsFirstNonEmpty ==
  pc2 = "classify" =>
    /\ SubSeq(ws, 2, Len(ws)) = FirstOccurrencesFrom(q4_sheet, 2)
    /\ \A r \in DataRows(ws) : InputFingerprint(ws[r])[1] # <<>>

\* the number a table cell stands for
CellValue(c) == IF c = Str(sDash) THEN 0 ELSE c.n

DomainRows(table) == SubSeq(table, 1, Len(table) - 1)
TotalRow(table) == table[Len(table)]
ColumnSum(table, col) ==
  SumSeq([i \in 1..(Len(table) - 1) |-> CellValue(table[i].cells[col])])

\* a grand-total cell shows the sum of its column, "-" for zero
TotalsAddUp(table) ==
  /\ TotalRow(table).domain = "Total"
  /\ \A col \in DOMAIN TotalRow(table).cells :
       /\ CellValue(TotalRow(table).cells[col]) = ColumnSum(table, col)
       /\ (TotalRow(table).cells[col] = Str(sDash)) <=> (ColumnSum(table, col) = 0)

PositionOf(name) == CHOOSE i \in DOMAIN sheetnames : sheetnames[i] = name

\* the domain rows name sheets of the workbook, in workbook order
InSheetOrder(table) ==
  /\ \A i \in 1..(Len(table) - 1) : table[i].domain \in Range(sheetnames)
  /\ \A i \in 1..(Len(table) - 2) :
       PositionOf(table[i].domain) < PositionOf(table[i + 1].domain)

\* C9: in the three tables every grand total is the sum of its column; table
\* A's grand New and Existing are the sums of the Total columns of B and C,
\* its grand Total is their sum; the domain rows are in processing order.
C9_GrandTotals ==
  pc2 \in {"save", "done"} =>
    /\ TotalsAddUp(tables.A) /\ TotalsAddUp(tables.B) /\ TotalsAddUp(tables.C)
    /\ CellValue(TotalRow(tables.A).cells[1]) = ColumnSum(tables.B, 5)
    /\ CellValue(TotalRow(tables.A).cells[2]) = ColumnSum(tables.C, 5)
    /\ CellValue(TotalRow(tables.A).cells[3])
         = CellValue(TotalRow(tables.A).cells[1]) + CellValue(TotalRow(tables.A).cells[2])
    /\ InSheetOrder(tables.A) /\ InSheetOrder(tables.B) /\ InSheetOrder(tables.C)

\* C9 witness: the workbook is saved with two domain rows, new and existing
\* issues both counted in each, and a risk column that sums to zero.
C9_Witness ==
  /\ pc2 = "done"
  /\ Len(tables.A) = 3
  /\ \A i \in 1..2 : \A col \in 1..2 : CellValue(tables.A[i].cells[col]) > 0
  /\ \E col \in 1..4 : TotalRow(tables.B).cells[col] = Str(sDash)
  /\ \E col \in 1..4 : CellValue(TotalRow(tables.C).cells[col]) > 0

====
